---- MODULE Spec2Model ----
(***************************************************************************)
(* spotimine: OAuth2 token lifecycle, resilient API client, credential     *)
(* store and paginated / batched bulk operations.                          *)
(*                                                                         *)
(* Spec      the credential store, the token lifecycle and do_api          *)
(* SpecBulk  from_ids, get_liked_songs and Playlist::from_id               *)
(***************************************************************************)
EXTENDS Integers, Sequences, FiniteSets, TLC

(***************************************************************************)
(* Bounds of the model                                                     *)
(***************************************************************************)
\* epoch seconds at which the process starts
Now0 == 1793577600
\* seconds the model lets the clock advance
MaxTime == 7
\* resource requests one logical do_api call may issue in the model
MaxSent == 3
\* expires_in of every token response
ExpiresIn == 3600
\* seconds a numeric Retry-After header asks for
RetrySecs == 2
\* ids handed to from_ids
MaxIds == 120
\* total the saved-tracks endpoint reports
MaxTotal == 125
\* saved-tracks requests one get_liked_songs may issue in the model
MaxReqs == 5
\* entries of a remote playlist
MaxPlaylistLen == 4
\* entries in the first page of tracks.items of a playlist object
ServerPage == 2
\* tracks of the largest playlist or library a bulk write is run on
MaxTracks == 120
\* playlists in the "items" of the answer to me/playlists
MaxListed == 3
\* artists in the "artists" array of a parsed track or album
MaxArtists == 1
\* entries in tracks.items of a parsed playlist
MaxItems == 2

(***************************************************************************)
(* Program constants                                                       *)
(***************************************************************************)
\* Time::serialize treats values above this as already absolute
AbsThreshold == 100000
\* sleep when a 423/429 carries no Retry-After header
DefaultRetryAfter == 5
\* ids per batch read of from_ids
IdsBatch == 50
\* limit= of the saved-tracks requests of get_liked_songs
LikedLimit == 50
\* requests.chunks(50) of put_tracks_online and clear_tracks_online
ChunkSize == 50

Aliases == {"main"}
\* the accounts the bulk writes are called with
Users == {"src", "dst"}
\* the token values the token endpoint hands out
Tokens == {"tok1", "tok2"}
\* the empty string, as a token value
NoToken == ""
MaxNow == Now0 + MaxTime

VARIABLES
    accounts,   \* Config.accounts: alias -> Account, in memory
    disk,       \* the config file: alias -> serialized Account
    now,        \* SystemTime::now() in epoch seconds
    pc,         \* position of the process: idle, authorize, send, await, done, panic
    call,       \* arguments of the do_api call in progress
    log,        \* what the call in progress did so far, in order
    result,     \* what do_api returned
    bulk,       \* state of the bulk operation in progress (SpecBulk)
    bytes       \* the bytes of the config file: whole (the document `disk`),
                \* empty (after set_len(0)) or partial (write_all cut short)

apiVars == <<accounts, disk, now, pc, call, log, result, bytes>>
vars == <<accounts, disk, now, pc, call, log, result, bulk, bytes>>

(***************************************************************************)
(* Account and the serialization of Time                                   *)
(***************************************************************************)
Account(at, exp, rt) ==
    [access_token |-> at, expires_at |-> exp, refresh_token |-> rt, scope |-> "all"]

needs_refresh_without_token_check(acc, t) == t > acc.expires_at

\* Account::needs_refresh
needs_refresh(acc, t) ==
    acc.refresh_token # NoToken /\ t > acc.expires_at

\* impl Serialize for Time
SerializeTime(val, t) ==
    IF val > AbsThreshold THEN val ELSE val + t

\* impl Deserialize for Time (TimeVisitor::visit_u64)
DeserializeTime(v) == v

SerializeAccount(acc, t) ==
    [acc EXCEPT !.expires_at = SerializeTime(acc.expires_at, t)]

DeserializeAccount(js) ==
    [js EXCEPT !.expires_at = DeserializeTime(js.expires_at)]

\* Config::save_to: the document written to the file
SaveTo(cfg, t) ==
    [a \in DOMAIN cfg |-> SerializeAccount(cfg[a], t)]

\* Config::load
Load(file) ==
    [a \in DOMAIN file |-> DeserializeAccount(file[a])]

\* the Account parsed from a token response {access_token, expires_in, refresh_token}
ParseTokenResponse(tok, ein) ==
    Account(tok, DeserializeTime(ein), tok)

RefreshedKeepingAccessToken(acc, tok, ein) ==
    LET r == ParseTokenResponse(tok, ein)
    IN  [acc EXCEPT !.expires_at = r.expires_at,
                    !.refresh_token = r.refresh_token]

\* Account::refresh, the success path: the fields it overwrites
Refreshed(acc, tok, ein) ==
    LET r == ParseTokenResponse(tok, ein)
    IN  [acc EXCEPT !.access_token = r.access_token,
                    !.expires_at = r.expires_at,
                    !.refresh_token = r.refresh_token]

(***************************************************************************)
(* The remote service as the client sees it                                *)
(***************************************************************************)
Requests ==
    { [method |-> "GET", endpoint |-> "me/tracks?limit=50", body |-> ""],
      [method |-> "PUT", endpoint |-> "me/tracks", body |-> "ids"] }

StatusCodes == {401, 403, 404, 423, 429, 500}

\* a Retry-After header: absent, a number of seconds, or text that is no u64
RetryHeaders ==
    { [present |-> FALSE, numeric |-> FALSE, secs |-> 0],
      [present |-> TRUE, numeric |-> TRUE, secs |-> 0],
      [present |-> TRUE, numeric |-> TRUE, secs |-> RetrySecs],
      [present |-> TRUE, numeric |-> FALSE, secs |-> 0] }

NoCall == [alias |-> "", req |-> [method |-> "", endpoint |-> "", body |-> ""]]
NoResult == [ok |-> FALSE, kind |-> "none", code |-> 0, account |-> "", body |-> FALSE]

\* Account::get_id: the cached user id of the account
AccountGetId(user) == user

(***************************************************************************)
(* The log of one logical call                                             *)
(***************************************************************************)
\* get_token looks at the account
AcquireEv(acc) ==
    [ev |-> "acquire", at |-> now, expires_at |-> acc.expires_at,
     refresh_token |-> acc.refresh_token]
\* a POST to the token endpoint (by get_token, or forced by a 401), its
\* outcome, the access token it issued and the one the account held
TokenEv(by, ok, tok, old) ==
    [ev |-> "token", at |-> now, by |-> by, ok |-> ok, tok |-> tok, old |-> old]
ReqEv(req, acc) ==
    [ev |-> "req", at |-> now, req |-> req, token |-> acc.access_token,
     expired |-> needs_refresh(acc, now)]
NoHeader == [present |-> FALSE, numeric |-> FALSE, secs |-> 0]
RespEv(code, h) == [ev |-> "resp", at |-> now, code |-> code, retry_after |-> h]
SleepEv(secs) == [ev |-> "sleep", at |-> now, secs |-> secs]

Events(kind) == {i \in DOMAIN log : log[i].ev = kind}
Sent == Cardinality(Events("req"))

(***************************************************************************)
(* do_api                                                                  *)
(***************************************************************************)
ClassifyForbiddenAsReauth(code) ==
    IF code \in {401, 403} THEN "reauth"
    ELSE IF code \in {423, 429} THEN "ratelimit"
    ELSE IF code \in 400..499 THEN "client"
    ELSE IF code \in 500..599 THEN "server"
    ELSE "unknown"

ClassifyServerAsRateLimit(code) ==
    IF code = 401 THEN "reauth"
    ELSE IF code = 403 THEN "forbidden"
    ELSE IF code \in {423, 429} \cup 500..599 THEN "ratelimit"
    ELSE IF code \in 400..499 THEN "client"
    ELSE "unknown"

\* the match on the status code of Error::Status
Classify(code) ==
    IF code = 401 THEN "reauth"
    ELSE IF code = 403 THEN "forbidden"
    ELSE IF code \in {423, 429} THEN "ratelimit"
    ELSE IF code \in 400..499 THEN "client"
    ELSE IF code \in 500..599 THEN "server"
    ELSE "unknown"

RetryAfterIgnoringHeader(h) == DefaultRetryAfter

OnRefreshFailureReauthorize == "authorize"

\* refresh().expect("Failed to refresh access token"): where a failed
\* refresh takes the process
OnRefreshFailure == "panic"

\* the seconds do_api sleeps on a 423/429
RetryAfter(h) == IF h.present THEN h.secs ELSE DefaultRetryAfter

\* add_auth and Account::get_token, then the request is sent: the entry of
\* do_api, for the first attempt and for every recursive call
EnterDoApi(c) ==
    LET acc == accounts[c.alias] IN
    IF needs_refresh(acc, now)
    THEN \/ \E tok \in Tokens \ {acc.access_token} :
              LET fresh == Refreshed(acc, tok, ExpiresIn) IN
              /\ accounts' = [accounts EXCEPT ![c.alias] = fresh]
              /\ log' = log \o <<AcquireEv(acc), TokenEv("get_token", TRUE, tok, acc.access_token),
                                  ReqEv(c.req, fresh)>>
              /\ pc' = "await"
         \/ /\ log' = log \o <<AcquireEv(acc),
                                 TokenEv("get_token", FALSE, NoToken, acc.access_token)>>
            /\ pc' = OnRefreshFailure
            /\ UNCHANGED accounts
    ELSE /\ log' = log \o <<AcquireEv(acc), ReqEv(c.req, acc)>>
         /\ pc' = "await"
         /\ UNCHANGED accounts

\* a command hands an account of the store to do_api
DoApi(alias, req) ==
    /\ pc = "idle"
    /\ alias \in DOMAIN accounts
    /\ call' = [alias |-> alias, req |-> req]
    /\ EnterDoApi(call')
    /\ UNCHANGED <<disk, now, result, bulk, bytes>>

\* the recursive do_api after a 401 or a 423/429
Retry ==
    /\ pc = "send"
    /\ EnterDoApi(call)
    /\ UNCHANGED <<disk, now, call, result, bulk, bytes>>

Finish(res, code) ==
    /\ result' = res
    /\ log' = Append(log, RespEv(code, NoHeader))
    /\ pc' = "done"
    /\ UNCHANGED <<accounts, disk, now, call, bulk, bytes>>

RespondOk ==
    /\ pc = "await"
    /\ Finish([ok |-> TRUE, kind |-> "response", code |-> 200, account |-> "",
               body |-> TRUE], 200)

RespondTransportAndRetry ==
    /\ pc = "await"
    /\ Sent < MaxSent
    /\ log' = Append(log, RespEv(0, NoHeader))
    /\ pc' = "send"
    /\ UNCHANGED <<accounts, disk, now, call, result, bulk, bytes>>

\* Err(e) that is no Error::Status: "Failed to send request"
RespondTransport ==
    /\ pc = "await"
    /\ Finish([ok |-> FALSE, kind |-> "send", code |-> 0, account |-> "",
               body |-> FALSE], 0)

Respond401(code) ==
    /\ pc = "await"
    /\ Classify(code) = "reauth"
    /\ Sent < MaxSent
    /\ LET acc == accounts[call.alias] IN
       \/ \E tok \in Tokens \ {acc.access_token} :
            /\ accounts' = [accounts EXCEPT ![call.alias] = Refreshed(acc, tok, ExpiresIn)]
            /\ log' = log \o <<RespEv(code, NoHeader),
                                TokenEv("401", TRUE, tok, acc.access_token)>>
            /\ pc' = "send"
       \/ /\ log' = log \o <<RespEv(code, NoHeader),
                               TokenEv("401", FALSE, NoToken, acc.access_token)>>
          /\ pc' = OnRefreshFailure
          /\ UNCHANGED accounts
    /\ UNCHANGED <<disk, now, call, result, bulk, bytes>>

Respond403(code) ==
    /\ pc = "await"
    /\ Classify(code) = "forbidden"
    /\ Finish([ok |-> FALSE, kind |-> "forbidden", code |-> code,
               account |-> AccountGetId(call.alias), body |-> TRUE], code)

RespondRateLimit(code, h) ==
    /\ pc = "await"
    /\ Classify(code) = "ratelimit"
    /\ Sent < MaxSent
    /\ IF h.present /\ ~h.numeric
       THEN /\ log' = Append(log, RespEv(code, h))
            /\ pc' = "panic"
            /\ UNCHANGED now
       ELSE /\ now + RetryAfter(h) <= MaxNow
            /\ log' = log \o <<RespEv(code, h), SleepEv(RetryAfter(h))>>
            /\ now' = now + RetryAfter(h)
            /\ pc' = "send"
    /\ UNCHANGED <<accounts, disk, call, result, bulk, bytes>>

RespondClientError(code) ==
    /\ pc = "await"
    /\ Classify(code) = "client"
    /\ Finish([ok |-> FALSE, kind |-> "client", code |-> code, account |-> "",
               body |-> TRUE], code)

RespondServerError(code) ==
    /\ pc = "await"
    /\ Classify(code) = "server"
    /\ Finish([ok |-> FALSE, kind |-> "server", code |-> code, account |-> "",
               body |-> TRUE], code)

\* the command that called do_api is over; the REPL prompts again
Return ==
    /\ pc = "done"
    /\ pc' = "idle"
    /\ call' = NoCall
    /\ log' = <<>>
    /\ result' = NoResult
    /\ UNCHANGED <<accounts, disk, now, bulk, bytes>>

(***************************************************************************)
(* The credential store and the life of the process                        *)
(***************************************************************************)
\* adduser <alias>: Account::new calls get_access, which binds the loopback
\* listener and opens the browser, then waits for the callback
BeginAuthorize(alias, out) ==
    /\ pc = "idle"
    /\ pc' = IF out = "ok" THEN "authorize" ELSE "panic"
    /\ call' = [NoCall EXCEPT !.alias = alias]
    /\ UNCHANGED <<accounts, disk, now, log, result, bulk, bytes>>

\* the callback or the exchange of the code fails: get_access().unwrap()
AuthorizeFails ==
    /\ pc = "authorize"
    /\ pc' = "panic"
    /\ UNCHANGED <<accounts, disk, now, call, log, result, bulk, bytes>>

\* the callback arrives and the code is exchanged for tokens: Account::new
\* returns, then Config::add_account
AddAccount(alias, tok) ==
    /\ pc = "authorize"
    /\ call.alias = alias
    /\ accounts' = [a \in DOMAIN accounts \cup {alias} |->
                      IF a = alias THEN ParseTokenResponse(tok, ExpiresIn)
                      ELSE accounts[a]]
    /\ disk' = SaveTo(accounts', now)
    /\ pc' = "idle"
    /\ call' = NoCall
    /\ log' = <<>>
    /\ UNCHANGED <<now, result, bulk, bytes>>

\* rmuser <alias>: Config::remove_account
RemoveAccount(alias) ==
    /\ pc = "idle"
    /\ alias \in DOMAIN accounts
    /\ accounts' = [a \in DOMAIN accounts \ {alias} |-> accounts[a]]
    /\ disk' = SaveTo(accounts', now)
    /\ UNCHANGED <<now, pc, call, log, result, bulk, bytes>>

\* time passes at the prompt
Tick ==
    /\ pc = "idle"
    /\ now < MaxNow
    /\ now' = now + 1
    /\ UNCHANGED <<accounts, disk, pc, call, log, result, bulk, bytes>>

\* exit (or a caught signal): save_to, process::exit; the next run loads the file
ExitAndRestart ==
    /\ pc = "idle"
    /\ disk' = SaveTo(accounts, now)
    /\ accounts' = Load(disk')
    /\ UNCHANGED <<now, pc, call, log, result, bulk, bytes>>

\* a panic unwinds main: Drop for Spotimine saves; the next run loads the file
PanicUnwind ==
    /\ pc = "panic"
    /\ disk' = SaveTo(accounts, now)
    /\ accounts' = Load(disk')
    /\ pc' = "idle"
    /\ call' = NoCall
    /\ log' = <<>>
    /\ result' = NoResult
    /\ UNCHANGED <<now, bulk, bytes>>

\* the process is killed without running any handler; the next run loads the file
Kill ==
    /\ accounts' = Load(disk)
    /\ pc' = "idle"
    /\ call' = NoCall
    /\ log' = <<>>
    /\ result' = NoResult
    /\ UNCHANGED <<disk, now, bulk, bytes>>

(***************************************************************************)
(* Initial states: the process has loaded a config file written earlier    *)
(***************************************************************************)
\* accounts a config file may hold for one alias: an expired token, a token
\* valid for two more seconds, and an entry without refresh token
StoredAccounts ==
    { Account("tok1", Now0 - 1, "tok1"), Account("tok1", Now0 + 2, "tok1"),
      Account("tok1", Now0 - 1, NoToken) }

ConfigFiles ==
    UNION { [d -> StoredAccounts] : d \in SUBSET Aliases }

NoBulk == [op |-> "none", pc |-> "none"]

Init ==
    /\ disk \in ConfigFiles
    /\ accounts = Load(disk)
    /\ now = Now0
    /\ pc = "idle"
    /\ call = NoCall
    /\ log = <<>>
    /\ result = NoResult
    /\ bulk = NoBulk
    /\ bytes = "whole"

Next ==
    \/ \E a \in Aliases, r \in Requests : DoApi(a, r)
    \/ Retry
    \/ RespondOk
    \/ RespondTransport
    \/ \E c \in StatusCodes : Respond401(c)
    \/ \E c \in StatusCodes : Respond403(c)
    \/ \E c \in StatusCodes, h \in RetryHeaders : RespondRateLimit(c, h)
    \/ \E c \in StatusCodes : RespondClientError(c)
    \/ \E c \in StatusCodes : RespondServerError(c)
    \/ Return
    \/ \E a \in Aliases, out \in {"ok", "err"} : BeginAuthorize(a, out)
    \/ AuthorizeFails
    \/ \E a \in Aliases, t \in Tokens : AddAccount(a, t)
    \/ \E a \in Aliases : RemoveAccount(a)
    \/ Tick
    \/ ExitAndRestart
    \/ PanicUnwind
    \/ Kill

Spec == Init /\ [][Next]_vars

(***************************************************************************)
(* The config file under Config::save_to (SpecStore): save_to first clears *)
(* the file with set_len(0) and then writes the document with write_all,   *)
(* and the process may end between and during the two.                     *)
(***************************************************************************)
StoreAliases == {"main", "alt"}

StoreFiles ==
    UNION { [d -> StoredAccounts] : d \in SUBSET StoreAliases }

\* what a write_all that does not complete leaves in the file
CutShort == {"empty", "partial"}

\* save_to up to write_all: file.set_len(0)
SetLenZero(then) ==
    /\ bytes' = "empty"
    /\ pc' = then

\* an insert that leaves the new account alone in the map
StoreAddAccountAlone(alias, tok) ==
    /\ pc = "idle"
    /\ accounts' = [a \in {alias} |-> ParseTokenResponse(tok, ExpiresIn)]
    /\ SetLenZero("save")
    /\ UNCHANGED <<disk, now, call, log, result, bulk>>

\* adduser <alias>: Config::add_account inserts, then save_to
StoreAddAccount(alias, tok) ==
    /\ pc = "idle"
    /\ accounts' = [a \in DOMAIN accounts \cup {alias} |->
                      IF a = alias THEN ParseTokenResponse(tok, ExpiresIn)
                      ELSE accounts[a]]
    /\ SetLenZero("save")
    /\ UNCHANGED <<disk, now, call, log, result, bulk>>

\* rmuser <alias>: Config::remove_account removes, then save_to
StoreRemoveAccount(alias) ==
    /\ pc = "idle"
    /\ alias \in DOMAIN accounts
    /\ accounts' = [a \in DOMAIN accounts \ {alias} |-> accounts[a]]
    /\ SetLenZero("save")
    /\ UNCHANGED <<disk, now, call, log, result, bulk>>

\* exit, or a caught signal ends the loop of main: exit() calls save_to
StoreExit ==
    /\ pc = "idle"
    /\ SetLenZero("save_exit")
    /\ UNCHANGED <<accounts, disk, now, call, log, result, bulk>>

\* write_all of save_to and what the caller does with its result:
\* add_account drops it, exit() ends the process on Ok and panics on Err, and
\* the panic runs Drop for Spotimine, which calls save_to once more
WriteAll(out) ==
    /\ pc \in {"save", "save_exit", "save_drop"}
    /\ IF out = "ok"
       THEN /\ disk' = SaveTo(accounts, now)
            /\ bytes' = "whole"
            /\ pc' = IF pc = "save" THEN "idle" ELSE "down"
       ELSE /\ UNCHANGED disk
            /\ IF pc = "save_exit"
               THEN SetLenZero("save_drop")
               ELSE /\ bytes' \in CutShort
                    /\ pc' = IF pc = "save" THEN "idle" ELSE "down"
    /\ UNCHANGED <<accounts, now, call, log, result, bulk>>

\* the process is killed: no handler runs; a write_all in progress is cut short
StoreKill ==
    /\ pc \in {"idle", "save", "save_exit", "save_drop"}
    /\ pc' = "down"
    /\ IF pc = "idle" THEN UNCHANGED bytes ELSE bytes' \in CutShort
    /\ UNCHANGED <<accounts, disk, now, call, log, result, bulk>>

\* the next run: Config::init loads the file; main panics with "Failed to
\* initialize" when Config::load returns Err
StoreStart ==
    /\ pc = "down"
    /\ IF bytes = "whole"
       THEN /\ accounts' = Load(disk)
            /\ pc' = "idle"
       ELSE /\ pc' = "dead"
            /\ UNCHANGED accounts
    /\ UNCHANGED <<disk, now, call, log, result, bulk, bytes>>

InitStore ==
    /\ disk \in StoreFiles
    /\ accounts = Load(disk)
    /\ now = Now0
    /\ pc = "idle"
    /\ call = NoCall
    /\ log = <<>>
    /\ result = NoResult
    /\ bulk = NoBulk
    /\ bytes = "whole"

NextStore ==
    \/ \E a \in StoreAliases, t \in Tokens : StoreAddAccount(a, t)
    \/ \E a \in StoreAliases : StoreRemoveAccount(a)
    \/ StoreExit
    \/ \E out \in {"ok", "err"} : WriteAll(out)
    \/ StoreKill
    \/ StoreStart

SpecStore == InitStore /\ [][NextStore]_vars

(***************************************************************************)
(* Bulk reads: Content::from_ids, get_liked_songs, Content::from_id.       *)
(* Each do_api_json call of a bulk operation either yields the parsed      *)
(* response or an error, which the operation returns with `?`.             *)
(***************************************************************************)
\* the sequence <<a, a+1, ..., b>>
Range(a, b) == [k \in 1..(b - a + 1) |-> a + k - 1]

Min(a, b) == IF a < b THEN a ELSE b

Outcomes == {"ok", "err"}

\* ---- Content::from_ids --------------------------------------------------
\* vec_ids.len() == 50
BatchFull(vec_ids) == Len(vec_ids) = IdsBatch

StartFromIds(n) ==
    /\ bulk = NoBulk
    /\ bulk' = [op |-> "from_ids", pc |-> "loop", ids |-> Range(1, n), i |-> 0,
                vec_ids |-> <<>>, vec |-> <<>>, reqs |-> <<>>, ok |-> FALSE]
    /\ UNCHANGED apiVars

\* one turn of `for id in ids` that issues no request
FromIdsPush ==
    /\ bulk.op = "from_ids" /\ bulk.pc = "loop"
    /\ bulk.i < Len(bulk.ids)
    /\ LET pushed == Append(bulk.vec_ids, bulk.ids[bulk.i + 1]) IN
       /\ ~BatchFull(pushed)
       /\ bulk' = [bulk EXCEPT !.vec_ids = pushed, !.i = @ + 1]
    /\ UNCHANGED apiVars

\* one turn of `for id in ids` that sends the batch GET <type>s/?ids=...
FromIdsBatch(out) ==
    /\ bulk.op = "from_ids" /\ bulk.pc = "loop"
    /\ bulk.i < Len(bulk.ids)
    /\ LET pushed == Append(bulk.vec_ids, bulk.ids[bulk.i + 1]) IN
       /\ BatchFull(pushed)
       /\ IF out = "ok"
          THEN bulk' = [bulk EXCEPT !.reqs = Append(@, pushed), !.vec = @ \o pushed,
                                    !.vec_ids = <<>>, !.i = @ + 1]
          ELSE bulk' = [bulk EXCEPT !.reqs = Append(@, pushed), !.pc = "done",
                                    !.ok = FALSE]
    /\ UNCHANGED apiVars

\* the loop is over: Ok(vec)
FromIdsReturn ==
    /\ bulk.op = "from_ids" /\ bulk.pc = "loop"
    /\ bulk.i = Len(bulk.ids)
    /\ bulk' = [bulk EXCEPT !.pc = "done", !.ok = TRUE]
    /\ UNCHANGED apiVars

\* ---- get_liked_songs ----------------------------------------------------
\* the lengths of the page the service may answer with at `offset`:
\* the full page, a single item, or nothing
PageLens(offset, total) ==
    LET full == Min(LikedLimit, total - offset) IN
    {full} \cup {k \in {0, 1} : k <= full}

MorePagesOffByOne(offset, total) == offset + 1 < total

\* `while offset < total as usize`
MorePages(offset, total) == offset < total

\* page of the saved tracks, which the service numbers 1..total
Page(offset, len) == Range(offset + 1, offset + len)

\* the first request, me/tracks?limit=50, and the parse of its answer
StartLiked(total, out) ==
    /\ bulk = NoBulk
    /\ \/ /\ out = "err"
          /\ bulk' = [op |-> "liked", pc |-> "done", total |-> total, offset |-> 0,
                      tracks |-> <<>>, reqs |-> <<0>>, faithful |-> TRUE, ok |-> FALSE]
       \/ /\ out = "ok"
          /\ \E len \in PageLens(0, total) :
               bulk' = [op |-> "liked", pc |-> "loop", total |-> total, offset |-> len,
                        tracks |-> Page(0, len), reqs |-> <<0>>,
                        faithful |-> (len = Min(LikedLimit, total)), ok |-> FALSE]
    /\ UNCHANGED apiVars

\* one turn of the while loop: me/tracks?limit=50&offset=<offset>
LikedPage(out) ==
    /\ bulk.op = "liked" /\ bulk.pc = "loop"
    /\ MorePages(bulk.offset, bulk.total)
    /\ Len(bulk.reqs) < MaxReqs
    /\ \/ /\ out = "err"
          /\ bulk' = [bulk EXCEPT !.reqs = Append(@, bulk.offset), !.pc = "done",
                                  !.ok = FALSE]
       \/ /\ out = "ok"
          /\ \E len \in PageLens(bulk.offset, bulk.total) :
               bulk' = [bulk EXCEPT
                          !.reqs = Append(@, bulk.offset),
                          !.tracks = @ \o Page(bulk.offset, len),
                          !.offset = @ + len,
                          !.faithful = @ /\ len = Min(LikedLimit, bulk.total - bulk.offset)]
    /\ UNCHANGED apiVars

\* the loop is over: Ok(Playlist { name: "Liked Songs", tracks, .. })
LikedReturn ==
    /\ bulk.op = "liked" /\ bulk.pc = "loop"
    /\ ~MorePages(bulk.offset, bulk.total)
    /\ bulk' = [bulk EXCEPT !.pc = "done", !.ok = TRUE]
    /\ UNCHANGED apiVars

\* ---- Content::from_id for Playlist ---------------------------------------
\* a track entry whose "track" is null
NullTrack == "null"

\* the remote playlists: entries are track ids or null tracks
RemotePlaylists ==
    UNION { [1..n -> {NullTrack, "track1", "track2"}] : n \in 0..MaxPlaylistLen }

\* the playlist object GET playlists/<id> answers with: the first page of
\* tracks.items and the total
PlaylistJson(remote) ==
    [items |-> SubSeq(remote, 1, Min(Len(remote), ServerPage)), total |-> Len(remote)]

\* tracks.retain(|x| !x["track"].is_null())
RECURSIVE Retain(_)
Retain(items) ==
    IF items = <<>> THEN <<>>
    ELSE IF Head(items) = NullTrack THEN Retain(Tail(items))
    ELSE <<Head(items)>> \o Retain(Tail(items))

\* Playlist::from_json: the tracks of the Playlist it builds
PlaylistFromJson(json) == Retain(json.items)

\* from_id: one GET playlists/<id>, then from_json
PlaylistFromId(remote, out) ==
    /\ bulk = NoBulk
    /\ bulk' = [op |-> "from_id", pc |-> "done", remote |-> remote, reqs |-> <<0>>,
                tracks |-> IF out = "ok" THEN PlaylistFromJson(PlaylistJson(remote))
                           ELSE <<>>,
                ok |-> (out = "ok")]
    /\ UNCHANGED apiVars

(***************************************************************************)
(* Bulk writes: Playlist::copy, Playlist::copy_to_liked,                   *)
(* put_tracks_online, clear_tracks_online, create_online                   *)
(***************************************************************************)
\* a remote call of a bulk write, as do_api receives it
NoBody == [name |-> "", public |-> FALSE, collaborative |-> FALSE]
ApiCall(method, endpoint, user, target, items, body) ==
    [method |-> method, endpoint |-> endpoint, user |-> user, target |-> target,
     items |-> items, body |-> body]

\* sizes of the playlists and libraries the bulk writes are run on
TrackSizes == {0, 1, ChunkSize, ChunkSize + 1, MaxTracks}

\* added_at of the k-th entry of the source playlist: not in order, with ties
AddedAt(k) == (k * 7) % 11

\* the PlaylistTracks of the source playlist
SourceTracks(n) == [k \in 1..n |-> [uri |-> k, added_at |-> AddedAt(k)]]

\* the PlaylistTracks get_liked_songs returns for a library of t saved tracks
LikedTracks(t) == [k \in 1..t |-> [uri |-> MaxTracks + k, added_at |-> AddedAt(k)]]

\* the saved-tracks requests of get_liked_songs against a service with full pages
LikedCalls(user, t) ==
    [k \in 1..(IF t = 0 THEN 1 ELSE (t + LikedLimit - 1) \div LikedLimit) |->
        ApiCall("GET", "me/tracks?limit=50", user, LikedLimit * (k - 1), <<>>, NoBody)]

\* the tracks in the order of the playlist
unsorted(tracks) == tracks

\* Playlist::sort_tracks: sort_by(|a, b| b.added_at.cmp(&a.added_at)), stable
sort_tracks(tracks) ==
    LET before(q, p) ==
            \/ tracks[q].added_at > tracks[p].added_at
            \/ tracks[q].added_at = tracks[p].added_at /\ q < p
        rank == [p \in DOMAIN tracks |->
                    Cardinality({q \in DOMAIN tracks : before(q, p)}) + 1]
    IN  [r \in DOMAIN tracks |-> tracks[CHOOSE p \in DOMAIN tracks : rank[p] = r]]

\* the `requests` vector of put_tracks_online and clear_tracks_online
TrackIds(tracks) == [k \in DOMAIN tracks |-> tracks[k].uri]

\* chunks_exact(50): the remainder is left out
ChunksExact(seq) ==
    [c \in 1..(Len(seq) \div ChunkSize) |->
        SubSeq(seq, (c - 1) * ChunkSize + 1, c * ChunkSize)]

\* one request with everything
ChunksUnsplit(seq) == <<seq>>

\* requests.chunks(50)
Chunks(seq) ==
    [c \in 1..((Len(seq) + ChunkSize - 1) \div ChunkSize) |->
        SubSeq(seq, (c - 1) * ChunkSize + 1, Min(c * ChunkSize, Len(seq)))]

\* user_yn: what the user typed, and the default
ConfirmInputs == {"", "y", "Y", "n", "N", "what"}
ToLowercase(input) ==
    IF input = "Y" THEN "y" ELSE IF input = "N" THEN "n" ELSE input
user_yn_always_yes(input, default) == TRUE
user_yn(input, default) ==
    IF input = "" THEN default
    ELSE IF ToLowercase(input) = "y" THEN TRUE
    ELSE IF ToLowercase(input) = "n" THEN FALSE
    ELSE default

\* Visibility::is_public, Visibility::is_collaborative
Visibilities == {"Public", "Private", "Collaborative"}
is_public(v) == v = "Public"
is_collaborative(v) == v = "Collaborative"

\* Some(x) and None of an Option argument
None == "none"
unwrap_or(opt, default) == IF opt = None THEN default ELSE opt

\* the arguments of Playlist::copy
NoArgs == [owner |-> "", new_name |-> None, new_user |-> None]

\* the state of a bulk write that has just been called
BulkWrite(op, src) ==
    [op |-> op, pc |-> "start", ok |-> FALSE, error |-> "", failed |-> FALSE,
     answer |-> "", args |-> NoArgs, src |-> src, liked |-> <<>>, chunks |-> <<>>,
     reqs |-> <<>>, user |-> "", name |-> "", visibility |-> "Private",
     uri |-> ""]

\* `?` on a failed call: the bulk write returns the error
Fails(b, calls, error) ==
    [b EXCEPT !.reqs = @ \o calls, !.pc = "done", !.ok = FALSE, !.failed = TRUE,
              !.error = error]

\* put_tracks_online up to its loop: sort_tracks, requests, chunks
EnterPut(b, tracks) ==
    [b EXCEPT !.pc = "put", !.chunks = Chunks(TrackIds(sort_tracks(tracks)))]

\* a loop over the chunks that has none left returns Ok(()) to its caller
Proceed(b) ==
    IF b.pc = "put" /\ b.chunks = <<>>
    THEN [b EXCEPT !.pc = "done", !.ok = TRUE]
    ELSE b

\* ---- Playlist::copy_to_liked ---------------------------------------------
\* the prompt of copy_to_liked and the answer to it
CopyToLiked(n, dest, input) ==
    /\ bulk = NoBulk
    /\ LET b == [BulkWrite("copy_to_liked", SourceTracks(n)) EXCEPT
                    !.user = dest, !.answer = input] IN
       IF ~user_yn(input, FALSE)
       THEN bulk' = [b EXCEPT !.pc = "done", !.error = "Aborted"]
       ELSE bulk' = [b EXCEPT !.pc = "fetch"]
    /\ UNCHANGED apiVars

\* get_liked_songs(new_acc)?, then clear_tracks_online up to its loop
FetchLiked(t, out) ==
    /\ bulk.op = "copy_to_liked" /\ bulk.pc = "fetch"
    /\ LET calls == LikedCalls(bulk.user, t) IN
       \/ /\ out = "err"
          /\ \E j \in DOMAIN calls : bulk' = Fails(bulk, SubSeq(calls, 1, j), "api")
       \/ /\ out = "ok"
          /\ bulk' = [bulk EXCEPT !.reqs = @ \o calls, !.liked = LikedTracks(t),
                                  !.pc = "clear",
                                  !.chunks = Chunks(TrackIds(LikedTracks(t)))]
    /\ UNCHANGED apiVars

\* one turn of the loop of clear_tracks_online: DELETE me/tracks
ClearBatch(out) ==
    /\ bulk.op = "copy_to_liked" /\ bulk.pc = "clear"
    /\ bulk.chunks # <<>>
    /\ LET c == ApiCall("DELETE", "me/tracks", bulk.user, "", Head(bulk.chunks), NoBody) IN
       IF out = "ok"
       THEN bulk' = [bulk EXCEPT !.reqs = Append(@, c), !.chunks = Tail(@)]
       ELSE bulk' = Fails(bulk, <<c>>, "api")
    /\ UNCHANGED apiVars

\* put_tracks_online entered although clear_tracks_online may have chunks left
ClearSkipped ==
    /\ bulk.op = "copy_to_liked" /\ bulk.pc = "clear"
    /\ bulk' = Proceed(EnterPut([bulk EXCEPT !.liked = bulk.src], bulk.src))
    /\ UNCHANGED apiVars

\* clear_tracks_online returned Ok: liked.tracks = self.tracks.clone(), then
\* put_tracks_online(new_acc, true) up to its loop
ClearDone ==
    /\ bulk.op = "copy_to_liked" /\ bulk.pc = "clear"
    /\ bulk.chunks = <<>>
    /\ bulk' = Proceed(EnterPut([bulk EXCEPT !.liked = bulk.src], bulk.src))
    /\ UNCHANGED apiVars

\* ---- Playlist::copy ------------------------------------------------------
\* copy up to the loop of put_tracks_online: the new Playlist value, the
\* choice of the account, create_online
Copy(n, vis, owner, new_name, new_user, out) ==
    /\ bulk = NoBulk
    /\ LET user == unwrap_or(new_user, owner)
           b == [BulkWrite("copy", SourceTracks(n)) EXCEPT
                    !.name = unwrap_or(new_name, "source name"),
                    !.visibility = vis, !.user = user,
                    !.args = [owner |-> owner, new_name |-> new_name,
                              new_user |-> new_user]]
           create == ApiCall("POST", "users/playlists", user, AccountGetId(user), <<>>,
                             [name |-> b.name, public |-> is_public(b.visibility),
                              collaborative |-> is_collaborative(b.visibility)])
       IN  IF out = "ok"
           THEN bulk' = Proceed(EnterPut([b EXCEPT !.reqs = <<create>>,
                                                   !.uri = "spotify:playlist:new"],
                                         b.src))
           ELSE bulk' = Fails(b, <<create>>, "api")
    /\ UNCHANGED apiVars

\* SpotifyURI::get_id
get_id(uri) == IF uri = "spotify:playlist:new" THEN "new" ELSE uri

\* ---- Playlist::put_tracks_online -----------------------------------------
\* one turn of the loop: PUT me/tracks (liked) or POST playlists/<id>/tracks
PutBatch(out) ==
    /\ bulk.op \in {"copy", "copy_to_liked"} /\ bulk.pc = "put"
    /\ bulk.chunks # <<>>
    /\ LET liked == bulk.op = "copy_to_liked"
           c == IF liked
                THEN ApiCall("PUT", "me/tracks", bulk.user, "", Head(bulk.chunks), NoBody)
                ELSE ApiCall("POST", "playlists/tracks", bulk.user, get_id(bulk.uri),
                             Head(bulk.chunks), NoBody)
       IN  IF out = "ok"
           THEN bulk' = Proceed([bulk EXCEPT !.reqs = Append(@, c), !.chunks = Tail(@)])
           ELSE bulk' = Fails(bulk, <<c>>, "api")
    /\ UNCHANGED apiVars

\* ---- get_playlists_for ---------------------------------------------------
\* GET me/playlists?limit=50 and the parse of "items"
GetPlaylistsFor(user, m, out) ==
    /\ bulk = NoBulk
    /\ LET b == [BulkWrite("get_playlists_for", Range(1, m)) EXCEPT !.user = user]
           list == ApiCall("GET", "me/playlists?limit=50", user, "", <<>>, NoBody)
       IN  IF out = "ok"
           THEN bulk' = [b EXCEPT !.reqs = <<list>>, !.pc = "hydrate",
                                  !.chunks = Range(1, m)]
           ELSE bulk' = Fails(b, <<list>>, "api")
    /\ UNCHANGED apiVars

HydrateInserting(out) ==
    /\ bulk.op = "get_playlists_for" /\ bulk.pc = "hydrate"
    /\ bulk.chunks # <<>>
    /\ LET c == ApiCall("GET", "playlists", bulk.user, Head(bulk.chunks), <<>>, NoBody) IN
       IF out = "ok"
       THEN bulk' = [bulk EXCEPT !.reqs = Append(@, c), !.chunks = Tail(@),
                                 !.liked = <<Head(bulk.chunks)>> \o @]
       ELSE bulk' = [bulk EXCEPT !.reqs = Append(@, c), !.failed = TRUE,
                                 !.pc = "done", !.ok = TRUE]
    /\ UNCHANGED apiVars

\* one turn of try_for_each: playlists.push(Playlist::from_id(id, acc)?).
\* An Err ends the iteration; `let _ =` drops it and Ok(playlists) follows.
Hydrate(out) ==
    /\ bulk.op = "get_playlists_for" /\ bulk.pc = "hydrate"
    /\ bulk.chunks # <<>>
    /\ LET c == ApiCall("GET", "playlists", bulk.user, Head(bulk.chunks), <<>>, NoBody) IN
       IF out = "ok"
       THEN bulk' = [bulk EXCEPT !.reqs = Append(@, c), !.chunks = Tail(@),
                                 !.liked = Append(@, Head(bulk.chunks))]
       ELSE bulk' = [bulk EXCEPT !.reqs = Append(@, c), !.failed = TRUE,
                                 !.pc = "done", !.ok = TRUE]
    /\ UNCHANGED apiVars

\* try_for_each is through: Ok(playlists)
PlaylistsReturn ==
    /\ bulk.op = "get_playlists_for" /\ bulk.pc = "hydrate"
    /\ bulk.chunks = <<>>
    /\ bulk' = [bulk EXCEPT !.pc = "done", !.ok = TRUE]
    /\ UNCHANGED apiVars

\* the caller takes the result
BulkReturn ==
    /\ bulk # NoBulk /\ bulk.pc = "done"
    /\ bulk' = NoBulk
    /\ UNCHANGED apiVars

InitBulk ==
    /\ disk = [a \in Aliases |-> Account("tok1", Now0 + 2, "tok1")]
    /\ accounts = Load(disk)
    /\ now = Now0
    /\ pc = "idle"
    /\ call = NoCall
    /\ log = <<>>
    /\ result = NoResult
    /\ bulk = NoBulk
    /\ bytes = "whole"

NextBulk ==
    \/ \E n \in 0..MaxIds : StartFromIds(n)
    \/ FromIdsPush
    \/ \E out \in Outcomes : FromIdsBatch(out)
    \/ FromIdsReturn
    \/ \E t \in 0..MaxTotal, out \in Outcomes : StartLiked(t, out)
    \/ \E out \in Outcomes : LikedPage(out)
    \/ LikedReturn
    \/ \E r \in RemotePlaylists, out \in Outcomes : PlaylistFromId(r, out)
    \/ \E n \in TrackSizes, d \in Users, i \in ConfirmInputs : CopyToLiked(n, d, i)
    \/ \E t \in TrackSizes, out \in Outcomes : FetchLiked(t, out)
    \/ \E out \in Outcomes : ClearBatch(out)
    \/ ClearDone
    \/ \E n \in TrackSizes, v \in Visibilities, o \in Users,
          nn \in {None, "new name"}, nu \in {None} \cup Users, out \in Outcomes :
            Copy(n, v, o, nn, nu, out)
    \/ \E out \in Outcomes : PutBatch(out)
    \/ \E u \in Users, m \in 0..MaxListed, out \in Outcomes : GetPlaylistsFor(u, m, out)
    \/ \E out \in Outcomes : Hydrate(out)
    \/ PlaylistsReturn
    \/ BulkReturn

SpecBulk == InitBulk /\ [][NextBulk]_vars

(***************************************************************************)
(* Parsing (SpecParse): Content::from_json of the content kinds, on JSON   *)
(* values whose fields are present, null or of another type                *)
(***************************************************************************)
\* a serde_json::Value: its type and, by type, its content
Json(t, s, n, b, a) == [t |-> t, s |-> s, n |-> n, b |-> b, a |-> a]
Null == Json("null", "", 0, FALSE, <<>>)
Str(s) == Json("string", s, 0, FALSE, <<>>)
Num(n) == Json("number", "", n, FALSE, <<>>)
Bool(b) == Json("bool", "", 0, b, <<>>)
Arr(a) == Json("array", "", 0, FALSE, a)

\* Value::as_str, as_u64, as_bool, as_array are Some
is_str(v) == v.t = "string"
is_u64(v) == v.t = "number"
is_bool(v) == v.t = "bool"
is_array(v) == v.t = "array"

\* the outcome of a from_json: Ok(value), Err(message) or a panic
Parsed(val) == [res |-> "Ok", val |-> val]
ParseErr == [res |-> "Err", val |-> <<>>]
Panic == [res |-> "Panic", val |-> <<>>]

\* the first outcome of a sequence of steps that is not Ok, where each step
\* is only run when the ones before it were Ok
RECURSIVE FirstFailure(_)
FirstFailure(steps) ==
    IF steps = <<>> THEN "Ok"
    ELSE IF Head(steps) # "Ok" THEN Head(steps)
    ELSE FirstFailure(Tail(steps))

\* x.ok_or(..)? and x.unwrap() on an Option that is Some exactly when `some`
ok_or(some) == IF some THEN "Ok" ELSE "Err"
unwrap(some) == IF some THEN "Ok" ELSE "Panic"

\* ---- rfc3339_to_epoch_time -------------------------------------------------
\* the added_at strings of the service and what split('T'), split('-') and
\* split(':') with parse::<u64>() make of them
Timestamp(y, mo, d, h, mi, sec) == [date |-> <<y, mo, d>>, time |-> <<h, mi, sec>>]

\* The u64 sum
\*   time[0]*3600 + time[1]*60 + time[2]
\*     + date[2]*86400 + date[1]*2592000 + date[0]*31104000
\* exceeds the integers of the model checker, so it is kept as two digits in
\* base 86400: 2592000 = 30 * 86400 and 31104000 = 360 * 86400.
U64(days, secs) == [days |-> days + secs \div 86400, secs |-> secs % 86400]

rfc3339_to_epoch_time(ts) ==
    U64(ts.date[3] + ts.date[2] * 30 + ts.date[1] * 360,
        ts.time[1] * 3600 + ts.time[2] * 60 + ts.time[3])

\* a < b of two u64 values
LessU64(a, b) == a.days < b.days \/ (a.days = b.days /\ a.secs < b.secs)

AddedAtStrings == {"2023-01-31T12:00:00Z", "2023-02-01T00:00:00Z", "yesterday"}
WellFormed(s) == s \in {"2023-01-31T12:00:00Z", "2023-02-01T00:00:00Z"}
SplitTimestamp(s) ==
    IF s = "2023-01-31T12:00:00Z" THEN Timestamp(2023, 1, 31, 12, 0, 0)
    ELSE Timestamp(2023, 2, 1, 0, 0, 0)

\* ---- Artist::from_json -----------------------------------------------------
Artist_from_json(json) ==
    LET res == FirstFailure(<<ok_or(is_str(json.name)), unwrap(is_str(json.uri))>>) IN
    IF res = "Ok" THEN Parsed([name |-> json.name.s, uri |-> json.uri.s])
    ELSE [res |-> res, val |-> <<>>]

\* the outcomes of from_json over the items of an array, in order
ArtistOutcomes(items) == [k \in DOMAIN items |-> Artist_from_json(items[k]).res]

\* ---- Track::from_json ------------------------------------------------------
\* the loop over json["artists"], then the fields of Track { .. } in order
Track_from_json(json) ==
    LET res == FirstFailure(
                  <<ok_or(is_array(json.artists))>>
                  \o (IF is_array(json.artists) THEN ArtistOutcomes(json.artists.a)
                      ELSE <<>>)
                  \o <<unwrap(is_str(json.name)), unwrap(is_u64(json.duration_ms)),
                       unwrap(is_bool(json.explicit)), unwrap(is_str(json.uri))>>)
    IN  IF res = "Ok"
        THEN Parsed([name |-> json.name.s,
                     artists |-> [k \in DOMAIN json.artists.a |->
                                     Artist_from_json(json.artists.a[k]).val],
                     duration |-> json.duration_ms.n \div 1000,
                     explicit |-> json.explicit.b,
                     uri |-> json.uri.s])
        ELSE [res |-> res, val |-> <<>>]

\* ---- PlaylistTrack::from_json ----------------------------------------------
\* Track::from_json(&json["track"])?, then added_at; Track::from_json of a
\* null finds no "artists" array
PlaylistTrack_from_json(json) ==
    LET track == IF json.track_null THEN ParseErr ELSE Track_from_json(json.track)
        res == FirstFailure(<<track.res, ok_or(is_str(json.added_at)),
                              unwrap(is_str(json.added_at) => WellFormed(json.added_at.s))>>)
    IN  IF res = "Ok"
        THEN Parsed([track |-> track.val,
                     added_at |-> rfc3339_to_epoch_time(SplitTimestamp(json.added_at.s))])
        ELSE [res |-> res, val |-> <<>>]

EntryOutcomes(items) == [k \in DOMAIN items |-> PlaylistTrack_from_json(items[k]).res]
TrackOutcomes(items) == [k \in DOMAIN items |-> Track_from_json(items[k]).res]

\* ---- Album::from_json ------------------------------------------------------
Album_from_json(json) ==
    LET res == FirstFailure(
                  <<ok_or(is_str(json.name)), ok_or(is_array(json.artists))>>
                  \o (IF is_array(json.artists) THEN ArtistOutcomes(json.artists.a)
                      ELSE <<>>)
                  \o <<ok_or(json.tracks_is_array)>>
                  \o (IF json.tracks_is_array THEN TrackOutcomes(json.tracks_items)
                      ELSE <<>>)
                  \o <<ok_or(is_str(json.uri))>>)
    IN  IF res = "Ok"
        THEN Parsed([name |-> json.name.s,
                     artists |-> [k \in DOMAIN json.artists.a |->
                                     Artist_from_json(json.artists.a[k]).val],
                     tracks |-> [k \in DOMAIN json.tracks_items |->
                                     Track_from_json(json.tracks_items[k]).val],
                     uri |-> json.uri.s])
        ELSE [res |-> res, val |-> <<>>]

\* ---- Visibility::from_api --------------------------------------------------
from_api_public_first(collaborative, public) ==
    IF public THEN "Public"
    ELSE IF collaborative THEN "Collaborative"
    ELSE "Private"

from_api(collaborative, public) ==
    IF collaborative THEN "Collaborative"
    ELSE IF public THEN "Public"
    ELSE "Private"

\* ---- Playlist::from_json ---------------------------------------------------
RetainAll(items) == items

\* tracks.retain(|x| !x["track"].is_null())
RECURSIVE RetainTracks(_)
RetainTracks(items) ==
    IF items = <<>> THEN <<>>
    ELSE IF Head(items).track_null THEN RetainTracks(Tail(items))
    ELSE <<Head(items)>> \o RetainTracks(Tail(items))

\* as_bool().unwrap_or(false), as_u64().unwrap_or(0)
bool_or_false(v) == IF is_bool(v) THEN v.b ELSE FALSE
u64_or_zero(v) == IF is_u64(v) THEN v.n ELSE 0

Playlist_from_json(json) ==
    LET kept == IF json.items_is_array THEN RetainTracks(json.items) ELSE <<>>
        res == FirstFailure(
                  <<ok_or(json.items_is_array)>> \o EntryOutcomes(kept)
                  \o <<ok_or(is_str(json.name)), ok_or(is_str(json.description)),
                       ok_or(is_str(json.uri))>>)
    IN  IF res = "Ok"
        THEN Parsed([name |-> json.name.s,
                     description |-> json.description.s,
                     visibility |-> from_api(bool_or_false(json.collaborative),
                                             bool_or_false(json.public)),
                     followers |-> u64_or_zero(json.followers_total),
                     uri |-> json.uri.s,
                     tracks |-> [k \in DOMAIN kept |->
                                    PlaylistTrack_from_json(kept[k]).val]])
        ELSE [res |-> res, val |-> <<>>]

\* ---- SpotifyURI::get_id, SpotifyURI::get_type ------------------------------
\* a uri is modelled by its segments, the result of uri.split(':')
ContentType_from_str(s) ==
    IF s \in {"track", "song", "tracks", "songs"} THEN "Tracks"
    ELSE IF s \in {"artist", "singer", "artists", "singers"} THEN "Artists"
    ELSE IF s \in {"album", "albums"} THEN "Albums"
    ELSE IF s \in {"playlist", "list", "playlists"} THEN "Playlists"
    ELSE "None"

\* split(':').last().unwrap()
SpotifyURI_get_id(segs) == segs[Len(segs)]

SpotifyURI_get_type_of_first(segs) ==
    IF ContentType_from_str(segs[1]) = "None" THEN "Panic"
    ELSE ContentType_from_str(segs[1])

\* ContentType::from_str(split(':').nth(1).unwrap()).expect("Invalid URI")
SpotifyURI_get_type(segs) ==
    IF Len(segs) < 2 THEN "Panic"
    ELSE IF ContentType_from_str(segs[2]) = "None" THEN "Panic"
    ELSE ContentType_from_str(segs[2])

\* ---- the values that are parsed --------------------------------------------
SeqsUpTo(S, n) == UNION { [1..k -> S] : k \in 0..n }

Names == {Str("name"), Null, Num(1)}
Uris == {Str("spotify:x:1"), Null, Num(1)}

ArtistJsons == [name : Names, uri : Uris]
GoodArtist == [name |-> Str("name"), uri |-> Str("spotify:x:1")]

ArtistArrays ==
    {Null, Str("artists")} \cup {Arr(a) : a \in SeqsUpTo(ArtistJsons, MaxArtists)}

TrackJsons ==
    [name : Names, artists : ArtistArrays,
     duration_ms : {Num(215999), Null, Str("3:35")},
     explicit : {Bool(TRUE), Null, Str("yes")}, uri : Uris]
GoodTrack ==
    [name |-> Str("name"), artists |-> Arr(<<GoodArtist>>),
     duration_ms |-> Num(215999), explicit |-> Bool(TRUE), uri |-> Str("spotify:x:1")]

AddedAtValues == {Str(s) : s \in AddedAtStrings} \cup {Null, Num(1)}

\* a track entry of tracks.items: its "track" is null or a track object
NullEntries == [track_null : {TRUE}, track : {GoodTrack}, added_at : AddedAtValues]
EntryJsons ==
    NullEntries \cup [track_null : {FALSE}, track : TrackJsons, added_at : AddedAtValues]

\* the entries the playlists are made of: a null track, two good entries,
\* an entry without added_at and an entry whose track has no name
PlaylistEntries ==
    { [track_null |-> TRUE, track |-> GoodTrack, added_at |-> Str("2023-01-31T12:00:00Z")],
      [track_null |-> FALSE, track |-> GoodTrack, added_at |-> Str("2023-01-31T12:00:00Z")],
      [track_null |-> FALSE, track |-> GoodTrack, added_at |-> Str("2023-02-01T00:00:00Z")],
      [track_null |-> FALSE, track |-> GoodTrack, added_at |-> Null],
      [track_null |-> FALSE, track |-> [GoodTrack EXCEPT !.name = Null],
       added_at |-> Str("2023-02-01T00:00:00Z")] }

Flags == {Bool(TRUE), Bool(FALSE), Null}

PlaylistJsons ==
    { j \in [items_is_array : BOOLEAN, items : SeqsUpTo(PlaylistEntries, MaxItems),
             name : Names, description : {Str("about"), Null, Num(1)},
             collaborative : Flags, public : Flags,
             followers_total : {Num(7), Null}, uri : Uris] :
        ~j.items_is_array => j.items = <<>> }

AlbumJsons ==
    { j \in [name : Names, artists : ArtistArrays, tracks_is_array : BOOLEAN,
             tracks_items : {<<>>, <<GoodTrack>>, <<[GoodTrack EXCEPT !.name = Null]>>},
             uri : Uris] :
        ~j.tracks_is_array => j.tracks_items = <<>> }

\* valid timestamps: no 31st of February
Timestamps ==
    { Timestamp(y, mo, d, h, mi, sec) :
        y \in {2022, 2023}, mo \in {1, 2, 12}, d \in {1, 28, 31},
        h \in {0, 23}, mi \in {0, 59}, sec \in {0, 59} }
    \ { Timestamp(y, 2, 31, h, mi, sec) :
        y \in {2022, 2023}, h \in {0, 23}, mi \in {0, 59}, sec \in {0, 59} }

UriSegments ==
    { <<"playlist", "abc123">>, <<"track", "abc123">>, <<"artist", "abc123">>,
      <<"album", "abc123">>, <<"spotify", "playlist", "abc123">>,
      <<"spotify", "track", "abc123">>, <<"spotify", "artist", "abc123">>,
      <<"spotify", "album", "abc123">>, <<"abc123">> }

\* ---- the parsers at work ---------------------------------------------------
\* a parser was given `json` and came back with `out`
Done(kind, json, out) == [op |-> kind, pc |-> "done", value |-> json, out |-> out]

ParseArtist(json) ==
    /\ bulk = NoBulk
    /\ bulk' = Done("Artist", json, Artist_from_json(json))
    /\ UNCHANGED apiVars

ParseTrack(json) ==
    /\ bulk = NoBulk
    /\ bulk' = Done("Track", json, Track_from_json(json))
    /\ UNCHANGED apiVars

ParsePlaylistTrack(json) ==
    /\ bulk = NoBulk
    /\ bulk' = Done("PlaylistTrack", json, PlaylistTrack_from_json(json))
    /\ UNCHANGED apiVars

ParseAlbum(json) ==
    /\ bulk = NoBulk
    /\ bulk' = Done("Album", json, Album_from_json(json))
    /\ UNCHANGED apiVars

ParsePlaylist(json) ==
    /\ bulk = NoBulk
    /\ bulk' = Done("Playlist", json, Playlist_from_json(json))
    /\ UNCHANGED apiVars

\* Visibility::from_api(collaborative, public)
FromApi(collaborative, public) ==
    /\ bulk = NoBulk
    /\ bulk' = Done("from_api", [collaborative |-> collaborative, public |-> public],
                    [visibility |-> from_api(collaborative, public)])
    /\ UNCHANGED apiVars

\* two added_at strings are converted
ConvertAddedAt(a, b) ==
    /\ bulk = NoBulk
    /\ bulk' = Done("added_at", [a |-> a, b |-> b],
                    [a |-> rfc3339_to_epoch_time(a), b |-> rfc3339_to_epoch_time(b)])
    /\ UNCHANGED apiVars

\* get_id and get_type of a uri
UriAccessors(segs) ==
    /\ bulk = NoBulk
    /\ bulk' = Done("uri", [segs |-> segs], [id |-> SpotifyURI_get_id(segs),
                                             type |-> SpotifyURI_get_type(segs)])
    /\ UNCHANGED apiVars

InitParse == InitBulk

\* the values a caller may hand to a parser: none while a result is held
Given(S) == IF bulk = NoBulk THEN S ELSE {}

NextParse ==
    \/ \E c \in BOOLEAN, p \in BOOLEAN : FromApi(c, p)
    \/ \E u \in UriSegments : UriAccessors(u)
    \/ \E ab \in Given(Timestamps \X Timestamps) : ConvertAddedAt(ab[1], ab[2])
    \/ \E j \in Given(ArtistJsons) : ParseArtist(j)
    \/ \E j \in Given(TrackJsons) : ParseTrack(j)
    \/ \E j \in Given(EntryJsons) : ParsePlaylistTrack(j)
    \/ \E j \in Given(AlbumJsons) : ParseAlbum(j)
    \/ \E j \in Given(PlaylistJsons) : ParsePlaylist(j)
    \/ BulkReturn

SpecParse == InitParse /\ [][NextParse]_vars

(***************************************************************************)
(* get_liked_songs when every request succeeds (SpecLiked): the loop with  *)
(* the request and its answer as two steps, so that a turn of the loop is   *)
(* a step even when the page it gets leaves offset where it was. The       *)
(* program always takes its next step and the service always answers; what *)
(* the service puts in a page is its own choice.                           *)
(***************************************************************************)
\* me/tracks?limit=50 and the parse of its answer
LikedFirst(total) == StartLiked(total, "ok")

\* `while offset < total`: do_api_json(me/tracks?limit=50&offset=<offset>);
\* reqs keeps the first MaxReqs offsets requested
LikedRequest ==
    /\ bulk.op = "liked" /\ bulk.pc = "loop"
    /\ MorePages(bulk.offset, bulk.total)
    /\ bulk' = [bulk EXCEPT !.pc = "await",
                            !.reqs = IF Len(@) < MaxReqs
                                     THEN Append(@, bulk.offset) ELSE @]
    /\ UNCHANGED apiVars

\* the page arrives: from_json_array, offset += t.len(), tracks.append
LikedAnswer(len) ==
    /\ bulk.op = "liked" /\ bulk.pc = "await"
    /\ len \in PageLens(bulk.offset, bulk.total)
    /\ bulk' = [bulk EXCEPT
                  !.pc = "loop",
                  !.tracks = @ \o Page(bulk.offset, len),
                  !.offset = @ + len,
                  !.faithful = @ /\ len = Min(LikedLimit, bulk.total - bulk.offset)]
    /\ UNCHANGED apiVars

LikedAnswers == \E len \in 0..LikedLimit : LikedAnswer(len)

\* the libraries get_liked_songs is run on
LikedTotals == {0, 1, LikedLimit, LikedLimit + 1}

InitLiked == InitBulk

NextLiked ==
    \/ \E t \in LikedTotals : LikedFirst(t)
    \/ LikedRequest
    \/ LikedAnswers
    \/ LikedReturn
    \/ BulkReturn

SpecLiked ==
    /\ InitLiked /\ [][NextLiked]_vars
    /\ WF_vars(LikedRequest) /\ WF_vars(LikedAnswers) /\ WF_vars(LikedReturn)

(***************************************************************************)
(* The authorization of adduser (SpecAuth): Account::new, get_access,      *)
(* callback and the get_token of the code exchange, one step per call that *)
(* can fail. The events of an attempt are kept in log.                     *)
(***************************************************************************)
\* random_string(16): the state values an attempt may generate
States == {"st1", "st2"}

\* the parameters of the request line read from the redirect
NoLine == [code |-> None, state |-> None]
RedirectLines == [code : {"code1", None}, state : States \cup {None}]

AuthEv(ev, ok, state, line) == [ev |-> ev, ok |-> ok, state |-> state, line |-> line]
AuthErr == [NoResult EXCEPT !.kind = "err"]

\* Account::new: get_access().unwrap()
OnAuthError == "panic"

\* the last event of the kind in log
LastEv(kind) ==
    log[CHOOSE i \in DOMAIN log :
            log[i].ev = kind /\ \A j \in DOMAIN log : log[j].ev = kind => j <= i]

\* adduser <alias>: get_access binds 127.0.0.1:8888
AuthBind(alias, out) ==
    /\ pc = "idle"
    /\ call' = [NoCall EXCEPT !.alias = alias]
    /\ log' = <<AuthEv("bind", out = "ok", None, NoLine)>>
    /\ IF out = "ok"
       THEN pc' = "bound" /\ result' = NoResult
       ELSE pc' = OnAuthError /\ result' = AuthErr
    /\ UNCHANGED <<accounts, disk, now, bulk, bytes>>

\* the authorize url with state = random_string(16), then open::that(req)
AuthOpen(state, out) ==
    /\ pc = "bound"
    /\ log' = Append(log, AuthEv("open", out = "ok", state, NoLine))
    /\ IF out = "ok"
       THEN pc' = "listening" /\ result' = NoResult
       ELSE pc' = OnAuthError /\ result' = AuthErr
    /\ UNCHANGED <<accounts, disk, now, call, bulk, bytes>>

\* callback(listener.accept()): the connection and the read of its first line
AuthCallback(out, line) ==
    /\ pc = "listening"
    /\ IF out = "ok"
       THEN /\ log' = Append(log, AuthEv("accept", TRUE, None, line))
            /\ pc' = "redirected" /\ result' = NoResult
       ELSE /\ log' = Append(log, AuthEv("accept", FALSE, None, NoLine))
            /\ pc' = OnAuthError /\ result' = AuthErr
    /\ UNCHANGED <<accounts, disk, now, call, bulk, bytes>>

\* get_token(line, challenge): result.split("code=")[1], which panics on a
\* line without code=, the POST to the token endpoint, which takes the code
\* and the verifier and nothing of the state, and the parse of its answer;
\* then Account::new returns and Config::add_account stores the account
AuthGetToken(out, tok) ==
    /\ pc = "redirected"
    /\ LET line == LastEv("accept").line
           state == LastEv("open").state
       IN  IF line.code = None
           THEN /\ pc' = "panic"
                /\ UNCHANGED <<accounts, disk, log, result>>
           ELSE /\ log' = Append(log, AuthEv("token", out = "ok", state, line))
                /\ IF out = "ok"
                   THEN /\ accounts' = [a \in DOMAIN accounts \cup {call.alias} |->
                                          IF a = call.alias
                                          THEN ParseTokenResponse(tok, ExpiresIn)
                                          ELSE accounts[a]]
                        /\ disk' = SaveTo(accounts', now)
                        /\ pc' = "idle"
                        /\ result' = [NoResult EXCEPT !.ok = TRUE, !.kind = "account"]
                   ELSE /\ pc' = OnAuthError /\ result' = AuthErr
                        /\ UNCHANGED <<accounts, disk>>
    /\ UNCHANGED <<now, call, bulk, bytes>>

\* a panic unwinds main: Drop for Spotimine saves; the next run loads the file
AuthUnwind ==
    /\ pc = "panic"
    /\ disk' = SaveTo(accounts, now)
    /\ accounts' = Load(disk')
    /\ pc' = "idle"
    /\ UNCHANGED <<now, call, log, result, bulk, bytes>>

InitAuth == InitStore

NextAuth ==
    \/ \E a \in StoreAliases, out \in Outcomes : AuthBind(a, out)
    \/ \E st \in States, out \in Outcomes : AuthOpen(st, out)
    \/ \E out \in Outcomes, line \in RedirectLines : AuthCallback(out, line)
    \/ \E out \in Outcomes, t \in Tokens : AuthGetToken(out, t)
    \/ AuthUnwind

SpecAuth == InitAuth /\ [][NextAuth]_vars

(***************************************************************************)
(* Properties of do_api and the token lifecycle (Spec)                     *)
(***************************************************************************)
Reqs == Events("req")
Resps == Events("resp")
TokenReqs == Events("token")
Returned == pc = "done"

\* the responses of the call that are 401s, and those that are 423/429s
Unauthorized == {i \in Resps : Classify(log[i].code) = "reauth"}
RateLimited == {i \in Resps : Classify(log[i].code) = "ratelimit"}

\* C1: a 401 is retried once; after a second 401 in the same logical call the
\* error is returned, so no resource request follows a second 401.
C1_SingleRetryOn401 ==
    \A i, j \in Unauthorized :
        i < j => \A k \in Reqs : k < j

\* C2: every 423/429 is followed by a sleep of Retry-After seconds (5 without
\* the header) and then by one retry of the identical request; a call that
\* returns after k rate-limited responses and no 401 has issued k+1 requests
\* and returns the outcome of the last one.
SleepsAsTold(i) ==
    /\ i < Len(log)
    /\ log[i + 1].ev = "sleep"
    /\ log[i + 1].secs =
         (IF log[i].retry_after.present THEN log[i].retry_after.secs ELSE 5)
    /\ \A k \in DOMAIN log : k > i + 1 => log[k].at >= log[i].at + log[i + 1].secs

\* between two consecutive responses exactly one request, the request of the call
OneIdenticalRetry(i) ==
    \A j \in Resps :
        (i < j /\ \A m \in Resps : ~(i < m /\ m < j))
            => /\ Cardinality({k \in Reqs : i < k /\ k < j}) = 1
               /\ \A k \in Reqs : (i < k /\ k < j) => log[k].req = call.req

OutcomeOf(code) ==
    IF code = 200 THEN "response"
    ELSE IF code = 0 THEN "send"
    ELSE Classify(code)

C3_NoRefreshOfFreshToken ==
    \A i, j \in TokenReqs :
        ( /\ i < j
          /\ log[i].by = "get_token" /\ log[i].ok
          /\ log[j].by = "get_token"
          /\ \A m \in TokenReqs : ~(i < m /\ m < j)
          /\ log[j].at <= log[i].at + ExpiresIn ) => FALSE

\* C4: expires_at of every stored account is the token's expires_in with the
\* clock reading of some moment up to now added exactly once.
ConvertedOnce(e) ==
    \E t \in (Now0 - ExpiresIn - 1)..now : e = t + ExpiresIn

C4_ExpiresAtAbsolute ==
    \A a \in DOMAIN accounts : ConvertedOnce(accounts[a].expires_at)

\* C5: get_token refreshes exactly when the account has a refresh token and
\* now > expires_at; never when the refresh token is empty.
RefreshAttempted(i) == i < Len(log) /\ log[i + 1].ev = "token"

C5_IsExpired ==
    \A i \in Events("acquire") :
        /\ log[i].refresh_token # NoToken
              => (RefreshAttempted(i) <=> log[i].at > log[i].expires_at)
        /\ log[i].refresh_token = NoToken => ~RefreshAttempted(i)

C5_Witness ==
    /\ \E i \in Events("acquire") :
          log[i].refresh_token # NoToken /\ log[i].at > log[i].expires_at
             /\ RefreshAttempted(i)
    /\ \E i \in Events("acquire") :
          log[i].refresh_token # NoToken /\ log[i].at <= log[i].expires_at
             /\ ~RefreshAttempted(i)

C5_WitnessNoRefreshToken ==
    \E i \in Events("acquire") :
        log[i].refresh_token = NoToken /\ log[i].at > log[i].expires_at

\* C6: every resource request carries the account's access token; an account
\* expired at the start of the call is refreshed before the first request;
\* no request goes out with a token that needs_refresh reports as expired.
C6_NeverSendsExpired ==
    /\ \A k \in Reqs : ~log[k].expired
    /\ \A k \in Reqs : k > 1 /\ log[k - 1].ev \in {"acquire", "token"}
    /\ (Reqs # {} /\ log[1].refresh_token # NoToken /\ log[1].at > log[1].expires_at)
          => \E t \in TokenReqs : log[t].ok /\ \A k \in Reqs : t < k

\* C7: whenever an operation on the store has returned, the credentials in
\* the config file are those in memory.
SameCredentials(file, cfg) ==
    /\ DOMAIN file = DOMAIN cfg
    /\ \A a \in DOMAIN cfg :
          /\ file[a].access_token = cfg[a].access_token
          /\ file[a].refresh_token = cfg[a].refresh_token

C7_DiskFollowsMemory ==
    pc \in {"idle", "done"} => SameCredentials(disk, accounts)

\* the token get_token looked at (event i) was not expired: its expires_at is
\* a moment that has not passed, or is still the expires_in of a token
\* response, which the process received after it started at Now0
NotExpiredAt(i) ==
    IF log[i].expires_at <= AbsThreshold
    THEN log[i].at <= Now0 + log[i].expires_at
    ELSE log[i].at <= log[i].expires_at

\* C37: a call made with a token that is not expired and that gets no 401
\* sends nothing to the token endpoint and leaves access_token,
\* refresh_token and expires_at of the account as they were, whatever the
\* outcome of the call.
C37_ValidTokenUntouched ==
    ( /\ Events("acquire") # {}
      /\ call.alias \in DOMAIN accounts
      /\ Unauthorized = {}
      /\ \A i \in Events("acquire") : NotExpiredAt(i) ) =>
        /\ TokenReqs = {}
        /\ accounts[call.alias].expires_at = log[1].expires_at
        /\ accounts[call.alias].refresh_token = log[1].refresh_token
        /\ \A k \in Reqs : log[k].token = accounts[call.alias].access_token

(***************************************************************************)
(* Properties of the bulk reads (SpecBulk)                                 *)
(***************************************************************************)
CeilDiv(n, d) == (n + d - 1) \div d

RECURSIVE Concat(_)
Concat(seqs) == IF seqs = <<>> THEN <<>> ELSE Head(seqs) \o Concat(Tail(seqs))

FromIdsDone == bulk.op = "from_ids" /\ bulk.pc = "done" /\ bulk.ok

\* C8: from_ids of n ids issues ceil(n/50) batches of at most 50 ids that
\* cover the input in order, and returns the items of all of them in input
\* order, the final partial batch included.
C8_FromIdsCoversAll ==
    FromIdsDone =>
        /\ Len(bulk.reqs) = CeilDiv(Len(bulk.ids), 50)
        /\ \A k \in DOMAIN bulk.reqs : Len(bulk.reqs[k]) \in 1..50
        /\ Concat(bulk.reqs) = bulk.ids
        /\ bulk.vec = bulk.ids

LikedDone == bulk.op = "liked" /\ bulk.pc = "done" /\ bulk.ok

\* the offsets 0, 50, 100, ... of n requests
Offsets(n) == [k \in 1..n |-> 50 * (k - 1)]

\* C9 as stated: against a service that reports total T and answers with full
\* pages, get_liked_songs issues exactly ceil(T/50) requests, at offsets
\* 0, 50, 100, ..., and returns the T tracks in the order of the service.
C9_LikedPagesAsStated ==
    (LikedDone /\ bulk.faithful) =>
        /\ bulk.reqs = Offsets(CeilDiv(bulk.total, 50))
        /\ bulk.tracks = Range(1, bulk.total)

\* C9 amended: the first request is sent before the total is known, so the
\* number of requests is ceil(T/50) for T >= 1 and one (offset 0) for T = 0;
\* the playlist returned holds the T tracks in the order of the service.
C9_LikedPages ==
    (LikedDone /\ bulk.faithful) =>
        /\ bulk.reqs =
             Offsets(IF bulk.total = 0 THEN 1 ELSE CeilDiv(bulk.total, 50))
        /\ Len(bulk.tracks) = bulk.total
        /\ bulk.tracks = Range(1, bulk.total)

C9_Witness ==
    /\ LikedDone /\ bulk.faithful
    /\ bulk.total = 125
    /\ bulk.reqs = <<0, 50, 100>>
    /\ Len(bulk.tracks) = 125

FromIdDone == bulk.op = "from_id" /\ bulk.pc = "done" /\ bulk.ok

\* C10: the Playlist built by from_id holds every non-null track of the
\* remote playlist, in the order of the service, also when the playlist is
\* larger than one page.
C10_PlaylistComplete ==
    FromIdDone => bulk.tracks = Retain(bulk.remote)

(***************************************************************************)
(* Properties of the bulk writes (SpecBulk)                                *)
(***************************************************************************)
CallsTo(endpoint) == {k \in DOMAIN bulk.reqs : bulk.reqs[k].endpoint = endpoint}
CallsBy(methods) == {k \in DOMAIN bulk.reqs : bulk.reqs[k].method \in methods}

\* C11: copy_to_liked issues no DELETE and no PUT unless the confirmation
\* was answered with yes; declined or defaulted, it returns "Aborted" and has
\* made no remote call at all.
C11_ConfirmBeforeOverwrite ==
    bulk.op = "copy_to_liked" =>
        /\ CallsBy({"DELETE", "PUT"}) # {} => bulk.answer \in {"y", "Y"}
        /\ bulk.answer \notin {"y", "Y"} =>
              /\ bulk.pc = "done" /\ ~bulk.ok /\ bulk.error = "Aborted"
              /\ bulk.reqs = <<>>

\* copy_to_liked was declined by an empty answer and has returned
C11_Witness ==
    /\ bulk.op = "copy_to_liked" /\ bulk.pc = "done"
    /\ bulk.answer = "" /\ bulk.error = "Aborted"
    /\ Len(bulk.src) = MaxTracks

\* copy_to_liked was confirmed and has overwritten the library
C11_WitnessConfirmed ==
    /\ bulk.op = "copy_to_liked" /\ bulk.pc = "done" /\ bulk.ok
    /\ bulk.answer = "y"
    /\ CallsBy({"DELETE"}) # {} /\ CallsBy({"PUT"}) # {}

\* C12: copy sends exactly one create request, to the destination account
\* (the owner when none is given), with the chosen name (the source's when
\* none is given) and the source's visibility; add-tracks POSTs go to the
\* new playlist only after the create succeeded, in batches of at most 50
\* whose concatenation holds every source track exactly once.
C12_Copy ==
    bulk.op = "copy" =>
        LET dest == IF bulk.args.new_user = None THEN bulk.args.owner
                    ELSE bulk.args.new_user
            name == IF bulk.args.new_name = None THEN "source name"
                    ELSE bulk.args.new_name
            adds == CallsTo("playlists/tracks")
            uris == Concat([k \in 1..(Len(bulk.reqs) - 1) |-> bulk.reqs[k + 1].items])
        IN  /\ CallsTo("users/playlists") = {1}
            /\ bulk.reqs[1].method = "POST"
            /\ bulk.reqs[1].user = dest /\ bulk.reqs[1].target = dest
            /\ bulk.reqs[1].body =
                  [name |-> name, public |-> bulk.visibility = "Public",
                   collaborative |-> bulk.visibility = "Collaborative"]
            /\ adds = 2..Len(bulk.reqs)
            /\ adds # {} => bulk.uri # ""
            /\ bulk.uri = "" => bulk.pc = "done" /\ ~bulk.ok
            /\ \A k \in adds :
                  /\ bulk.reqs[k].method = "POST" /\ bulk.reqs[k].user = dest
                  /\ bulk.reqs[k].target = "new"
                  /\ Len(bulk.reqs[k].items) \in 1..ChunkSize
            /\ bulk.pc = "done" /\ bulk.ok =>
                  /\ Len(uris) = Len(bulk.src)
                  /\ \A t \in DOMAIN bulk.src :
                        Cardinality({i \in DOMAIN uris : uris[i] = bulk.src[t].uri}) = 1

\* a copy of the largest playlist to the owner's own account has returned Ok
C12_Witness ==
    /\ bulk.op = "copy" /\ bulk.pc = "done" /\ bulk.ok
    /\ bulk.args.new_user = None /\ bulk.args.new_name = None
    /\ Len(bulk.src) = MaxTracks
    /\ Len(bulk.reqs) = 1 + CeilDiv(MaxTracks, ChunkSize)

\* C13: an error from any single call made inside a bulk operation makes
\* the operation return the error: it never returns Ok after a failed call,
\* and get_playlists_for returns Err when hydrating one playlist fails.
C13_ErrorsPropagate ==
    bulk.op \in {"get_playlists_for", "copy", "copy_to_liked"} /\ bulk.failed =>
        bulk.pc = "done" /\ ~bulk.ok

(***************************************************************************)
(* Terminal statuses, retries and refresh of do_api (Spec)                 *)
(***************************************************************************)
\* the response at position i ended the call: nothing follows it in the log
\* and do_api has returned
Terminal(i) == i = Len(log) /\ pc = "done"

Forbidden == {i \in Resps : log[i].code = 403}

OtherClientErrors == {i \in Resps : log[i].code \in 400..499 \ {401, 403, 423, 429}}
ServerErrors == {i \in Resps : log[i].code \in 500..599}

Accepted == {i \in Resps : log[i].code = 200}
TransportErrors == {i \in Resps : log[i].code = 0}

\* the last response before position i
LastRespBefore(i) ==
    LET before == {j \in Resps : j < i} IN
    CHOOSE j \in before : \A k \in before : k <= j

\* C16: within one call a request is re-sent only after a 401, 423 or 429;
\* nothing is sent after a 2xx or after a transport error, so the server
\* accepts at most one request of the call.
C16_NoDuplicateWrites ==
    /\ \A i \in Reqs :
          (\E k \in Reqs : k < i) =>
              /\ \E j \in Resps : j < i
              /\ log[LastRespBefore(i)].code \in {401, 423, 429}
              /\ \A k \in Reqs : k < i => k < LastRespBefore(i)
    /\ \A i \in Accepted \cup TransportErrors : Terminal(i)
    /\ Cardinality(Accepted) <= 1

\* a PUT was accepted on the retry that followed a 429
C16_Witness ==
    /\ call.req.method = "PUT"
    /\ Accepted # {}
    /\ \E i \in RateLimited : log[i].code = 429
    /\ Cardinality(Reqs) = 2

FailedRefreshes == {i \in TokenReqs : ~log[i].ok}

\* C17: a failed refresh is returned to the caller as an error, never a
\* panic, and leaves access_token, refresh_token and expires_at untouched.
C17_RefreshFailureIsReturned ==
    FailedRefreshes # {} =>
        /\ pc # "panic"
        /\ accounts[call.alias].access_token = log[Len(log)].old

\* C18: a refresh failure never starts the interactive authorization: the
\* listener is bound and the browser opened only by adduser at the prompt.
C18_NoReauthorization ==
    [][(pc' = "authorize" /\ pc # "authorize") => (pc = "idle" /\ log' = <<>>)]_vars

\* a forced refresh has failed and no authorization was started
C18_Witness ==
    /\ \E i \in FailedRefreshes : log[i].by = "401"
    /\ pc = "panic"

GoodRefreshes == {i \in TokenReqs : log[i].ok}

\* the last successful refresh before position i
LastRefreshBefore(i) ==
    LET before == {j \in GoodRefreshes : j < i} IN
    CHOOSE j \in before : \A k \in before : k <= j

\* C19: a successful refresh puts the access_token and refresh_token of the
\* token response into the account, and every request sent afterwards
\* carries the new access token, never the replaced one.
C19_RefreshReplacesTokens ==
    /\ \A i \in Reqs :
          (\E j \in GoodRefreshes : j < i) =>
              /\ log[i].token = log[LastRefreshBefore(i)].tok
              /\ log[i].token # log[LastRefreshBefore(i)].old
    /\ GoodRefreshes # {} =>
          /\ accounts[call.alias].access_token = log[LastRefreshBefore(Len(log) + 1)].tok
          /\ accounts[call.alias].refresh_token = log[LastRefreshBefore(Len(log) + 1)].tok

\* the retry after a 401 has been sent with the token of the forced refresh
C19_Witness ==
    /\ \E i \in GoodRefreshes : log[i].by = "401"
    /\ log # <<>> /\ log[Len(log)].ev = "req"
    /\ log[Len(log)].token = accounts[call.alias].access_token

\* C20: deserializing the serialized store yields the same mapping of
\* aliases to accounts, field for field, for every reachable store.
C20_RoundTrip ==
    Load(SaveTo(accounts, now)) = accounts

\* the requests of a bulk write that carry ids or uris
ItemCalls == CallsBy({"DELETE", "PUT"}) \cup CallsTo("playlists/tracks")

\* C22: no request carries more than 50 items: every ids= batch of from_ids
\* and every body of put_tracks_online and clear_tracks_online has between
\* 1 and 50 items.
C22_BatchSizes ==
    /\ bulk.op = "from_ids" =>
          \A k \in DOMAIN bulk.reqs : Len(bulk.reqs[k]) \in 1..50
    /\ bulk.op \in {"copy", "copy_to_liked"} =>
          \A k \in ItemCalls : Len(bulk.reqs[k].items) \in 1..50

\* copy_to_liked has cleared a library of 51 tracks and put 120 in its place
C22_Witness ==
    /\ bulk.op = "copy_to_liked" /\ bulk.pc = "done" /\ bulk.ok
    /\ Len(bulk.liked) = MaxTracks
    /\ \E k \in CallsBy({"DELETE"}) : Len(bulk.reqs[k].items) = 1
    /\ \E k \in CallsBy({"PUT"}) : Len(bulk.reqs[k].items) = 50
    /\ Cardinality(ItemCalls) = 2 + CeilDiv(MaxTracks, 50)

\* C25: when the listing returns n playlists and every request succeeds,
\* get_playlists_for issues one listing request followed by n hydration
\* requests, one per listed playlist in listing order, and returns the n
\* playlists in listing order.
C25_ListThenHydrate ==
    bulk.op = "get_playlists_for" /\ bulk.pc = "done" /\ ~bulk.failed =>
        LET n == Len(bulk.src) IN
        /\ bulk.ok
        /\ Len(bulk.reqs) = n + 1
        /\ bulk.reqs[1].method = "GET"
        /\ bulk.reqs[1].endpoint = "me/playlists?limit=50"
        /\ \A k \in 1..n :
              /\ bulk.reqs[k + 1].method = "GET"
              /\ bulk.reqs[k + 1].endpoint = "playlists"
              /\ bulk.reqs[k + 1].target = bulk.src[k]
        /\ bulk.liked = bulk.src

\* the listing held the most playlists and all of them were hydrated
C25_Witness ==
    /\ bulk.op = "get_playlists_for" /\ bulk.pc = "done" /\ ~bulk.failed
    /\ Len(bulk.src) = MaxListed
    /\ Len(bulk.liked) = MaxListed

\* C30: a failed command never ends the process: whatever fails (a remote
\* call, a token refresh, an authorization), the command returns an error to
\* the prompt and main is never unwound by a panic.
C30_FailedCommandKeepsProcess == pc # "panic"

(***************************************************************************)
(* Properties of the config file (SpecStore)                               *)
(***************************************************************************)
\* C21: the config write is atomic with respect to process termination:
\* whenever the process has ended, the file holds a complete document,
\* never an empty or partially written one.
C21_SaveIsAtomic ==
    pc \in {"down", "dead"} => bytes = "whole"

(***************************************************************************)
(* Properties of the parsers (SpecParse)                                   *)
(***************************************************************************)
ParsedPlaylist == bulk.op = "Playlist"

\* the entries of tracks.items whose track is not null, by position
NonNull(items) == {i \in DOMAIN items : ~items[i].track_null}
NthNonNull(items, k) ==
    CHOOSE i \in NonNull(items) : Cardinality({j \in NonNull(items) : j <= i}) = k

\* a playlist object whose fields other than the optional ones are all there
\* and whose entries with a track are entries a PlaylistTrack can be made of
GoodEntry(e) ==
    /\ e.track = GoodTrack
    /\ is_str(e.added_at) /\ WellFormed(e.added_at.s)
SoundPlaylist(json) ==
    /\ json.items_is_array
    /\ \A i \in NonNull(json.items) : GoodEntry(json.items[i])
    /\ is_str(json.name) /\ is_str(json.uri)

\* C23: parsing a playlist whose tracks.items holds entries with a null
\* track succeeds and yields exactly the entries with a non-null track, in
\* their original order; a playlist whose only entry has a null track yields
\* zero entries and no error.
C23_NullTracksDropped ==
    ParsedPlaylist /\ SoundPlaylist(bulk.value) /\ is_str(bulk.value.description) =>
        /\ bulk.out.res = "Ok"
        /\ Len(bulk.out.val.tracks) = Cardinality(NonNull(bulk.value.items))
        /\ \A k \in DOMAIN bulk.out.val.tracks :
              bulk.out.val.tracks[k] =
                  PlaylistTrack_from_json(bulk.value.items[NthNonNull(bulk.value.items, k)]).val

\* a playlist of a null entry followed by a good entry was parsed
C23_Witness ==
    /\ ParsedPlaylist /\ bulk.out.res = "Ok"
    /\ Len(bulk.value.items) = 2
    /\ bulk.value.items[1].track_null /\ ~bulk.value.items[2].track_null
    /\ Len(bulk.out.val.tracks) = 1

\* a playlist whose only entry has a null track was parsed into no entries
C23_WitnessOnlyNull ==
    /\ ParsedPlaylist /\ bulk.out.res = "Ok"
    /\ Len(bulk.value.items) = 1 /\ bulk.value.items[1].track_null
    /\ bulk.out.val.tracks = <<>>

\* C24: from_api(collaborative, public): (true, false) gives Collaborative,
\* (false, true) Public, (false, false) Private, (true, true) Collaborative.
C24_VisibilityTable ==
    bulk.op = "from_api" =>
        LET c == bulk.value.collaborative
            p == bulk.value.public
        IN  /\ c /\ ~p => bulk.out.visibility = "Collaborative"
            /\ ~c /\ p => bulk.out.visibility = "Public"
            /\ ~c /\ ~p => bulk.out.visibility = "Private"
            /\ c /\ p => bulk.out.visibility = "Collaborative"

\* from_api(true, true) was evaluated
C24_Witness ==
    /\ bulk.op = "from_api"
    /\ bulk.value.collaborative /\ bulk.value.public
    /\ bulk.out.visibility = "Collaborative"

\* C26: from_json of every content kind returns an error value and never
\* panics when a required field is missing or of the wrong type.
C26_NoPanicOnBadField ==
    bulk.op \in {"Artist", "Track", "PlaylistTrack", "Album", "Playlist"} =>
        bulk.out.res # "Panic"

\* C27: a playlist object lacking description parses with an empty
\* description, and one lacking the follower count parses with followers 0.
C27_OptionalFields ==
    ParsedPlaylist /\ SoundPlaylist(bulk.value) =>
        /\ bulk.out.res = "Ok"
        /\ ~is_str(bulk.value.description) => bulk.out.val.description = ""
        /\ ~is_u64(bulk.value.followers_total) => bulk.out.val.followers = 0

\* a is chronologically before b
Earlier(a, b) ==
    LET x == a.date \o a.time
        y == b.date \o b.time
    IN  \E i \in 1..6 : x[i] < y[i] /\ \A j \in 1..(i - 1) : x[j] = y[j]

\* C28: the added_at conversion preserves order: for valid timestamps a
\* chronologically before b, rfc3339_to_epoch_time(a) < rfc3339_to_epoch_time(b).
C28_OrderPreserved ==
    bulk.op = "added_at" /\ Earlier(bulk.value.a, bulk.value.b) =>
        LessU64(bulk.out.a, bulk.out.b)

TypeNames == {"track", "artist", "album", "playlist"}
TypeNamed(s) ==
    IF s = "track" THEN "Tracks"
    ELSE IF s = "artist" THEN "Artists"
    ELSE IF s = "album" THEN "Albums"
    ELSE "Playlists"

Added(a) ==
    /\ DOMAIN accounts' = DOMAIN accounts \cup {a}
    /\ \A b \in DOMAIN accounts \ {a} : accounts'[b] = accounts[b]
    /\ a \in DOMAIN accounts =>
          Cardinality(DOMAIN accounts') = Cardinality(DOMAIN accounts)

\* the step removed alias a and touched no other alias
Removed(a) ==
    /\ DOMAIN accounts' = DOMAIN accounts \ {a}
    /\ \A b \in DOMAIN accounts' : accounts'[b] = accounts[b]

\* C36: aliases stay unique under additions and removals: an alias names one
\* account, and add_account with an alias that exists replaces that account
\* and leaves every other alias's account and the number of accounts as
\* they were.
C36_AliasesStayUnique ==
    [][ (pc = "idle" /\ pc' = "save") =>
            \/ \E a \in StoreAliases : Added(a)
            \/ \E a \in DOMAIN accounts : Removed(a) ]_vars

\* add_account has just replaced the account of an alias that was stored,
\* next to another alias
C36_Witness ==
    /\ pc = "save" /\ bytes = "empty"
    /\ DOMAIN disk = StoreAliases /\ DOMAIN accounts = StoreAliases
    /\ disk["main"].access_token = "tok1"
    /\ accounts["main"].access_token = "tok2"
    /\ accounts["alt"].access_token = disk["alt"].access_token

(***************************************************************************)
(* Properties of the bulk writes, continued (SpecBulk)                     *)
(***************************************************************************)
\* the items of the calls with the given method, in request order
ItemsSent(method) ==
    LET RECURSIVE pick(_)
        pick(reqs) ==
            IF reqs = <<>> THEN <<>>
            ELSE (IF Head(reqs).method = method THEN Head(reqs).items ELSE <<>>)
                    \o pick(Tail(reqs))
    IN  pick(bulk.reqs)

\* in copy_to_liked every GET comes before every DELETE and every DELETE
\* before every PUT; while clearing, what was deleted and what is left to
\* delete are the fetched liked songs; after a failed GET or DELETE there is
\* no PUT
ClearThenPut ==
    bulk.op = "copy_to_liked" =>
        /\ \A i \in CallsBy({"GET"}), j \in CallsBy({"DELETE", "PUT"}) : i < j
        /\ \A i \in CallsBy({"DELETE"}), j \in CallsBy({"PUT"}) : i < j
        /\ bulk.pc = "clear" =>
              ItemsSent("DELETE") \o Concat(bulk.chunks) = TrackIds(bulk.liked)
        /\ (bulk.failed /\ bulk.reqs[Len(bulk.reqs)].method \in {"GET", "DELETE"})
              => CallsBy({"PUT"}) = {}

\* C31: in copy_to_liked, after the confirmation, every DELETE batch is issued
\* before the first PUT batch, the DELETE batches together are exactly the
\* liked songs fetched from the destination, each once, and when the fetch or
\* a DELETE batch fails no PUT is issued.
C31_ClearBeforePut ==
    [][ /\ ClearThenPut'
        /\ (bulk.op = "copy_to_liked" /\ bulk.pc = "clear" /\ bulk' # bulk
                /\ ~bulk'.failed /\ bulk'.pc \in {"put", "done"})
              => ItemsSent("DELETE") = TrackIds(bulk.liked)
        /\ (bulk.op = "copy_to_liked" /\ bulk.pc = "put" /\ bulk'.pc # "none")
              => ItemsSent("DELETE")' = ItemsSent("DELETE") ]_vars

\* copy_to_liked returned Ok after several DELETE and several PUT batches
C31_Witness ==
    /\ bulk.op = "copy_to_liked" /\ bulk.pc = "done" /\ bulk.ok
    /\ Cardinality(CallsBy({"DELETE"})) >= 2
    /\ Cardinality(CallsBy({"PUT"})) >= 2

\* the track ids uploaded so far, in request order (create_online sends none)
Uploaded == ItemsSent("PUT") \o ItemsSent("POST")

\* added_at of the source track with the given id (the k-th has id k)
AddedOf(id) == bulk.src[id].added_at

\* C34: put_tracks_online uploads most-recently-added first: the batches it
\* sends, put together in request order, are tracks of the playlist in
\* descending order of added_at, each at most once, no track that is left
\* being newer than one that was sent; when it returns Ok every track was
\* sent; after a failed batch nothing more is sent.
C34_NewestFirst ==
    (bulk.op \in {"copy", "copy_to_liked"} /\ bulk.pc \in {"put", "done"}) =>
        LET up == Uploaded
            n == Len(up)
            sent == {up[i] : i \in 1..n}
        IN  /\ sent \subseteq {bulk.src[k].uri : k \in DOMAIN bulk.src}
            /\ Cardinality(sent) = n
            /\ \A i \in 1..(n - 1) : AddedOf(up[i]) >= AddedOf(up[i + 1])
            /\ \A k \in DOMAIN bulk.src :
                  (n > 0 /\ bulk.src[k].uri \notin sent)
                      => AddedOf(up[n]) >= bulk.src[k].added_at
            /\ bulk.ok => n = Len(bulk.src)
            /\ bulk.failed => bulk.pc = "done"

\* copy returned Ok after uploading a playlist of several batches
C34_Witness ==
    /\ bulk.op = "copy" /\ bulk.pc = "done" /\ bulk.ok
    /\ Len(Uploaded) = MaxTracks
    /\ \E i, j \in DOMAIN bulk.src : i < j /\ AddedAt(i) < AddedAt(j)

\* C35: get_liked_songs terminates whenever every page request succeeds,
\* whatever the pages hold: a call that has started eventually returns.
C35_LikedTerminates ==
    (bulk.op = "liked" /\ bulk.pc = "loop") ~> (bulk.op = "liked" /\ bulk.pc = "done")

(***************************************************************************)
(* Properties of the authorization (SpecAuth)                              *)
(***************************************************************************)
AuthEvents(kind) == {i \in DOMAIN log : log[i].ev = kind}

\* a step of the attempt in log has failed: the bind, the browser, the
\* connection, the code exchange, or the redirect carried no code
AuthFailed ==
    \/ \E i \in DOMAIN log : ~log[i].ok
    \/ /\ AuthEvents("accept") # {} /\ AuthEvents("token") = {}
       /\ LastEv("accept").line.code = None
       /\ pc # "redirected"

\* C32: authorize returns an error value, with no panic and no account, in
\* each failure case; the listener is bound before the browser is opened, and
\* no token exchange is sent when bind, browser or code extraction fail.
C32_AuthorizeReturnsErrors ==
    /\ \A i \in AuthEvents("open") : \E j \in AuthEvents("bind") : j < i /\ log[j].ok
    /\ \A i \in AuthEvents("token") :
          /\ \A j \in 1..(i - 1) : log[j].ok
          /\ log[i].line.code # None
    /\ AuthFailed => (pc # "panic" /\ result = AuthErr)

\* the redirect carries the state generated for the attempt
StateChecked(state, line) == line.state = state

\* C33: a token exchange is issued only when the state of the redirect equals
\* the state generated for the attempt.
C33_StateIsValidated ==
    \A i \in AuthEvents("token") : StateChecked(log[i].state, log[i].line)

====
